---- MODULE Spec2Model ----
(***************************************************************************)
(* A model of the Stock Symbol Industry Mapper: the IndustryMapper class   *)
(* of utils/data_processor.py and the Process Symbols handler of main.py.  *)
(*                                                                         *)
(* Python strings are modelled as sequences of one-character strings, so   *)
(* that strip, upper, startswith, split, join and the f-string rendering   *)
(* of the TradingView output are computed character by character.          *)
(***************************************************************************)
EXTENDS Naturals, Sequences, FiniteSets, TLC

VARIABLES
    mapper,               \* "none": no IndustryMapper object; "ready": one was constructed
    available_industries, \* self.available_industries: sorted list of industry names
    mapping_df,           \* self.mapping_df: list of rows <<symbol, industry>>
    mapping_dict,         \* self.mapping_dict: function from upper-cased symbol to industry
    load_error,           \* what the last load_database / __init__ call raised (NoError if nothing)
    stats,                \* last value returned by get_database_stats (<<>> if none)
    symbols_input,        \* the raw text the operation at hand was given
    outcome,              \* how the operation at hand ended
    clean_symbol_list,    \* list returned by clean_symbols
    renormalized,         \* clean_symbols of the comma-joined clean_symbol_list
    mapped_symbols,       \* dict returned by map_symbols, as its list of <<ticker, industry>> items
    invalid_symbols,      \* list returned by map_symbols
    categorized_output,   \* string returned by format_tv_output (<<>> if none, else <<string>>)
    flat_output,          \* string returned by format_flat_output (<<>> if none, else <<string>>)
    shown                 \* what the page has displayed for the request at hand

vars == <<mapper, available_industries, mapping_df, mapping_dict, load_error, stats,
          symbols_input, outcome, clean_symbol_list, renormalized, mapped_symbols,
          invalid_symbols, categorized_output, flat_output, shown>>

mapperVars == <<mapper, available_industries, mapping_df, mapping_dict, load_error, stats>>

requestVars == <<symbols_input, outcome, clean_symbol_list, renormalized, mapped_symbols,
                 invalid_symbols, categorized_output, flat_output, shown>>

-----------------------------------------------------------------------------
(* Characters and Python's str primitives.                                 *)

\* The characters the model uses, in ascending code point order.
CodePointOrder ==
    << "\t", "\n", "\r", " ", "#", "(", ")", ",",
       "0", "1", "2", "3", "4", "5", "6", "7", "8", "9", ":", ";",
       "A", "B", "C", "E", "H", "I", "N", "S", "T",
       "a", "b", "c", "e", "h", "i", "n", "s", "t" >>

Ord(c) == CHOOSE i \in 1..Len(CodePointOrder) : CodePointOrder[i] = c

\* str.isspace for one character
Whitespace == {" ", "\t", "\n", "\r"}

LowerLetters == << "a", "b", "c", "e", "h", "i", "n", "s", "t" >>
UpperLetters == << "A", "B", "C", "E", "H", "I", "N", "S", "T" >>

\* str.upper for one character
UpperChar(c) ==
    IF \E i \in 1..Len(LowerLetters) : LowerLetters[i] = c
    THEN UpperLetters[CHOOSE i \in 1..Len(LowerLetters) : LowerLetters[i] = c]
    ELSE c

\* str.upper
upper(s) == [i \in 1..Len(s) |-> UpperChar(s[i])]

\* str.strip: drop leading and trailing whitespace
strip(s) ==
    LET n == Len(s)
        Min(S) == CHOOSE i \in S : \A j \in S : i <= j
        ink == {i \in 1..n : s[i] \notin Whitespace}
    IN IF ink = {} THEN <<>>
       ELSE SubSeq(s, Min(ink), n + 1 - Min({n + 1 - i : i \in ink}))

\* str.startswith
startswith(s, p) == Len(s) >= Len(p) /\ SubSeq(s, 1, Len(p)) = p

\* str.replace(old, new) for one-character old and new
replace(s, old, new) == [i \in 1..Len(s) |-> IF s[i] = old THEN new ELSE s[i]]

\* the positions lo..hi of s that hold sep, ascending
RECURSIVE SepPositions(_, _, _, _)
SepPositions(s, sep, lo, hi) ==
    IF lo > hi THEN <<>>
    ELSE IF lo = hi THEN (IF s[lo] = sep THEN <<lo>> ELSE <<>>)
    ELSE LET mid == (lo + hi) \div 2
         IN SepPositions(s, sep, lo, mid) \o SepPositions(s, sep, mid + 1, hi)

\* str.split(sep): the pieces between separators, empty pieces kept ("" gives [""])
split(s, sep) ==
    LET p == <<0>> \o SepPositions(s, sep, 1, Len(s)) \o <<Len(s) + 1>>
    IN [k \in 1..(Len(p) - 1) |-> SubSeq(s, p[k] + 1, p[k + 1] - 1)]

\* sep.join(list[lo..hi])
RECURSIVE JoinRange(_, _, _, _)
JoinRange(sep, list, lo, hi) ==
    IF lo > hi THEN <<>>
    ELSE IF lo = hi THEN list[lo]
    ELSE LET mid == (lo + hi) \div 2
         IN JoinRange(sep, list, lo, mid) \o sep \o JoinRange(sep, list, mid + 1, hi)

\* str.join
join(sep, list) == JoinRange(sep, list, 1, Len(list))

\* s < t in Python's string order (lexicographic by code point)
StrLess(s, t) ==
    \E i \in 1..(Len(t)) :
        /\ \A j \in 1..(i - 1) : j <= Len(s) /\ s[j] = t[j]
        /\ \/ i = Len(s) + 1
           \/ i <= Len(s) /\ Ord(s[i]) < Ord(t[i])

\* sorted(S) for a set of distinct strings
SortedStrings(S) ==
    [k \in 1..Cardinality(S) |->
        CHOOSE e \in S : Cardinality({f \in S : StrLess(f, e)}) = k - 1]

Range(f) == {f[i] : i \in DOMAIN f}

-----------------------------------------------------------------------------
(* IndustryMapper.clean_symbols                                            *)

NSE == << "N", "S", "E", ":" >>

\* lines 51-53: the clean symbol of one token that is not blank
CleanToken(s) ==
    LET clean_symbol == upper(strip(s))
    IN IF startswith(clean_symbol, NSE)
       THEN SubSeq(clean_symbol, 5, Len(clean_symbol))
       ELSE clean_symbol

\* lines 57-58: remove duplicates while preserving order (an element is kept
\* when it was not seen before, i.e. at its first occurrence)
RemoveDuplicates(list) ==
    LET idx == [i \in 1..Len(list) |-> i]
        NotSeen(i) == \A j \in 1..(i - 1) : list[j] # list[i]
        keep == SelectSeq(idx, NotSeen)
    IN [k \in 1..Len(keep) |-> list[keep[k]]]

\* lines 41-60
clean_symbols(symbols) ==
    LET replaced == replace(replace(symbols, "\n", ","), ";", ",")
        tokens == split(replaced, ",")
        NotBlank(s) == strip(s) # <<>>
        kept == SelectSeq(tokens, NotBlank)
        symbol_list == [k \in 1..Len(kept) |-> CleanToken(kept[k])]
    IN RemoveDuplicates(symbol_list)

-----------------------------------------------------------------------------
(* IndustryMapper.load_database, __init__ and get_database_stats           *)

\* A CSV file of attached_assets: absent, or present with its data rows.
\* Industry Analytics.csv is read with header=None: a row is an industry name.
\* Basic RS Setup (4).csv: a row is <<Stock Name, Basic Industry>>.
MissingFile == [present |-> FALSE, rows |-> <<>>]
File(rows) == [present |-> TRUE, rows |-> rows]

\* An exception: the fixed texts of its message, outermost first, and the
\* industries the message names.  NoError: nothing was raised.
NoError == [texts |-> <<>>, named |-> {}]
Raised(texts, named) == [texts |-> texts, named |-> named]
NotFoundError == Raised(<<"Industry mapping database not found">>, {})
ReadError(e) == Raised(<<"Error reading industry database: ">> \o e.texts, e.named)
InitError(e) == Raised(<<"Failed to load industry mapping database: ">> \o e.texts, e.named)

\* lines 32-35: dict(zip(symbol.str.upper(), industry)); a later row with the
\* same upper-cased symbol overwrites the earlier one
DictZip(df) ==
    LET keys == {upper(df[i][1]) : i \in 1..Len(df)}
        LastRow(k) == CHOOSE i \in 1..Len(df) :
                         /\ upper(df[i][1]) = k
                         /\ \A j \in 1..Len(df) : upper(df[j][1]) = k => j <= i
    IN [k \in keys |-> df[LastRow(k)][2]]

\* line 28: set(mapping_df['industry']) - set(available_industries)
InvalidIndustries(df, available) == {df[i][2] : i \in 1..Len(df)} \ Range(available)

\* lines 13-39: the attributes of self after the call and the exception it
\* raised.  self.available_industries is assigned at line 18 and
\* self.mapping_df at line 22, before the check of lines 28-30 can raise;
\* self.mapping_dict is assigned at line 32, after it.
load_database(self, categories, stock_data) ==
    IF ~categories.present THEN [self EXCEPT !.error = NotFoundError]
    ELSE IF categories.rows = <<>>
    THEN [self EXCEPT !.error = ReadError(Raised(<<"No columns to parse from file">>, {}))]
    ELSE
    LET available == SortedStrings(Range(categories.rows))
        s1 == [self EXCEPT !.available_industries = available]
    IN IF ~stock_data.present THEN [s1 EXCEPT !.error = NotFoundError]
       ELSE
       LET s2 == [s1 EXCEPT !.mapping_df = stock_data.rows]
           invalid_industries == InvalidIndustries(s2.mapping_df, s2.available_industries)
       IN IF invalid_industries # {}
          THEN [s2 EXCEPT !.error =
                   ReadError(Raised(<<"Invalid industries in mapping: ">>, invalid_industries))]
          ELSE [s2 EXCEPT !.mapping_dict = DictZip(s2.mapping_df), !.error = NoError]

\* the attributes of a mapper object before __init__ has assigned any
EmptyDict == [k \in {} |-> <<>>]
NewObject == [available_industries |-> <<>>, mapping_df |-> <<>>, mapping_dict |-> EmptyDict,
              error |-> NoError]

Self == [available_industries |-> available_industries, mapping_df |-> mapping_df,
         mapping_dict |-> mapping_dict, error |-> NoError]

\* lines 142-148
get_database_stats ==
    [total_symbols |-> Len(mapping_df),
     total_industries |-> Len(available_industries),
     mapped_industries |-> Cardinality({mapping_df[i][2] : i \in 1..Len(mapping_df)})]

-----------------------------------------------------------------------------
(* IndustryMapper.map_symbols and format_tv_output                         *)

MaxBatch == 900

\* the limit tested one too early
BatchTooLargeFromLimit(n) == n >= MaxBatch

\* line 66
BatchTooLarge(n) == n > MaxBatch

\* lines 72-74: the items of mapped_symbols, in insertion order (the symbols
\* of clean_symbol_list are distinct, so no key is inserted twice)
MappedItems(list, dict) ==
    LET InDict(symbol) == symbol \in DOMAIN dict
        found == SelectSeq(list, InDict)
    IN [k \in 1..Len(found) |-> <<found[k], dict[found[k]]>>]

\* every symbol appended to invalid_symbols, found or not
InvalidSymbolsEverySymbol(list, dict) == list

\* lines 75-76: invalid_symbols
InvalidSymbols(list, dict) ==
    LET NotInDict(symbol) == symbol \notin DOMAIN dict
    IN SelectSeq(list, NotInDict)

\* lines 62-78: raised tells whether the ValueError of line 67 was raised,
\* and then nothing is returned
map_symbols(symbols, dict) ==
    LET list == clean_symbols(symbols)
    IN IF BatchTooLarge(Len(list))
       THEN [raised |-> TRUE, clean_symbol_list |-> list,
             mapped_symbols |-> <<>>, invalid_symbols |-> <<>>]
       ELSE [raised |-> FALSE, clean_symbol_list |-> list,
             mapped_symbols |-> MappedItems(list, dict),
             invalid_symbols |-> InvalidSymbols(list, dict)]

Keys(items) == {items[i][1] : i \in 1..Len(items)}

DigitChars == << "0", "1", "2", "3", "4", "5", "6", "7", "8", "9" >>

\* str(n) for n >= 0
RECURSIVE IntToStr(_)
IntToStr(n) ==
    IF n < 10 THEN << DigitChars[n + 1] >>
    ELSE Append(IntToStr(n \div 10), DigitChars[(n % 10) + 1])

\* lines 83-85: the symbols of one industry, in the order of the items
GroupSymbols(items, industry) ==
    LET OfIndustry(item) == item[2] = industry
        its == SelectSeq(items, OfIndustry)
    IN [k \in 1..Len(its) |-> its[k][1]]

\* the symbols left in the order of the items
SortSymbolsOmitted(symbols) == symbols

\* line 91: sorted(symbols)
SortSymbols(symbols) == SortedStrings(Range(symbols))

\* line 89: the industries in the order of sorted(industry_groups.items())
SortGroups(industries) == SortedStrings(industries)

\* lines 90-92: one formatted_line
FormattedLine(industry, symbols) ==
    LET symbol_count == Len(symbols)
        sorted_symbols == SortSymbols(symbols)
        nse_symbols == [k \in 1..Len(sorted_symbols) |-> NSE \o sorted_symbols[k]]
    IN <<"#", "#", "#">> \o industry \o <<"(">> \o IntToStr(symbol_count) \o <<")", ",">>
        \o join(<<",">>, nse_symbols)

\* lines 80-95
format_tv_output(items) ==
    LET industries == SortGroups({items[i][2] : i \in 1..Len(items)})
        formatted_lines ==
            [k \in 1..Len(industries) |->
                FormattedLine(industries[k], GroupSymbols(items, industries[k]))]
    IN join(<<",">>, formatted_lines)

\* the methods class IndustryMapper defines (lines 6, 13, 41, 62, 80, 97, 101, 142)
IndustryMapperMethods ==
    {"__init__", "load_database", "clean_symbols", "map_symbols", "format_tv_output",
     "get_available_industries", "get_fundamentals_data", "get_database_stats"}

\* attribute lookup on the mapper: a name the class does not define raises AttributeError
HasMethod(name) == name \in IndustryMapperMethods

\* the flat-symbols-only rendering main.py asks the mapper for: the prefixed,
\* comma-joined ticker list, no grouping
format_flat_output(items) ==
    join(<<",">>, [k \in 1..Len(items) |-> NSE \o items[k][1]])

-----------------------------------------------------------------------------
(* The inputs the operations are exercised on.                             *)

IT == << "I", "T" >>
Tech == << "T", "e", "c", "h" >>
CatalogNames == {IT, Tech}

MaxCatalogRows == 2
MaxRows == 2
MaxTokens == 3
MaxCleanTokens == 2
MaxPrefixes == 2
BatchOver == 2
MaxItems == 3
MaxWide == 11

SeqsUpTo(S, n) == UNION {[1..k -> S] : k \in 0..n}

CatalogFiles == {MissingFile} \cup {File(rows) : rows \in SeqsUpTo(CatalogNames, MaxCatalogRows)}

StockFiles(symbols) ==
    {MissingFile} \cup {File(rows) : rows \in SeqsUpTo(symbols \X CatalogNames, MaxRows)}

\* the symbols of the table behind the page, and of the tables loaded one after another
PageSymbols == { << "a" >>, << "B" >> }
LoadSymbols == { << "A" >>, << "a" >> }

Separators == << <<",">>, <<";">>, <<"\n">> >>

\* the tokens joined into one text; the gaps take the separators in turn, from the style-th on
JoinTokens(tokens, style) ==
    IF Len(tokens) = 0 THEN <<>>
    ELSE LET piece(k) == IF k = 1 THEN tokens[1]
                         ELSE Separators[((k + style) % 3) + 1] \o tokens[k]
         IN JoinRange(<<>>, [k \in 1..Len(tokens) |-> piece(k)], 1, Len(tokens))

Texts(tokenSet, n) ==
    {JoinTokens(tokens, style) : tokens \in SeqsUpTo(tokenSet, n), style \in 1..3}

\* what a user types into the text area
PageTokens == { << "A" >>, << "b" >>, << "N", "S", "E", ":", "a" >>, << " " >> }
PageInputs == Texts(PageTokens, MaxTokens)

\* tokens with optional blanks and up to MaxPrefixes exchange prefixes before the body
RECURSIVE Prefixes(_)
Prefixes(n) == IF n = 0 THEN <<>> ELSE NSE \o Prefixes(n - 1)
Blanks == { <<>>, << " " >> }
Bodies == { <<>>, << "a" >>, << "A" >>, << "B" >> }
DecoratedTokens ==
    {lead \o Prefixes(n) \o inner \o body :
        lead \in Blanks, n \in 0..MaxPrefixes, inner \in Blanks, body \in Bodies}

\* the ticker numbered j < 1000: its three decimal digits
Tick(j) == << DigitChars[(j \div 100) + 1], DigitChars[((j \div 10) % 10) + 1],
              DigitChars[(j % 10) + 1] >>

\* a text of n comma-separated tokens naming k distinct tickers: the first k
\* tokens are Tick(0) .. Tick(k-1), the later ones repeat them with the prefix
BatchText(n, k) ==
    join(<<",">>, [i \in 1..n |-> IF i <= k THEN Tick(i - 1) ELSE NSE \o Tick((i - 1) % k)])

BatchInputs ==
    {BatchText(n, k) : n \in (MaxBatch - 1)..(MaxBatch + BatchOver),
                       k \in (MaxBatch - 1)..(MaxBatch + BatchOver)}

\* dicts given to format_tv_output: items with distinct keys
FormatTickers == { << "A" >>, << "B" >>, << "A", "B" >>, << "T", "C", "S" >> }
FormatIndustries == {IT, Tech, << "a", "i" >>}
DistinctKeys(items) == \A i, j \in 1..Len(items) : items[i][1] = items[j][1] => i = j
WideDict(n) == [i \in 1..n |-> << Tick(n - i), IT >>]
FormatInputs ==
    {items \in SeqsUpTo(FormatTickers \X FormatIndustries, MaxItems) : DistinctKeys(items)}
    \cup {WideDict(n) : n \in 9..MaxWide}

-----------------------------------------------------------------------------
(* Operations.                                                             *)

IdleRequest ==
    /\ symbols_input = <<>>
    /\ outcome = "idle"
    /\ clean_symbol_list = <<>>
    /\ renormalized = <<>>
    /\ mapped_symbols = <<>>
    /\ invalid_symbols = <<>>
    /\ categorized_output = <<>>
    /\ flat_output = <<>>
    /\ shown = {}

NoMapper ==
    /\ mapper = "none"
    /\ available_industries = NewObject.available_industries
    /\ mapping_df = NewObject.mapping_df
    /\ mapping_dict = NewObject.mapping_dict
    /\ load_error = NoError
    /\ stats = <<>>

\* main.py lines 6-8 and 32, data_processor.py lines 6-11: get_mapper() constructs the
\* mapper; when load_database raises, __init__ re-raises and no object comes to exist
Construct(categories, stock_data) ==
    /\ mapper = "none"
    /\ LET self == load_database(NewObject, categories, stock_data)
       IN IF self.error = NoError
          THEN /\ mapper' = "ready"
               /\ available_industries' = self.available_industries
               /\ mapping_df' = self.mapping_df
               /\ mapping_dict' = self.mapping_dict
               /\ load_error' = NoError
          ELSE /\ load_error' = InitError(self.error)
               /\ UNCHANGED <<mapper, available_industries, mapping_df, mapping_dict>>
    /\ stats' = <<>>
    /\ UNCHANGED requestVars

\* data_processor.py lines 13-39: load_database called on the constructed mapper
LoadDatabase(categories, stock_data) ==
    /\ mapper = "ready"
    /\ LET self == load_database(Self, categories, stock_data)
       IN /\ available_industries' = self.available_industries
          /\ mapping_df' = self.mapping_df
          /\ mapping_dict' = self.mapping_dict
          /\ load_error' = self.error
    /\ stats' = <<>>
    /\ UNCHANGED <<mapper, requestVars>>

\* main.py line 33
GetDatabaseStats ==
    /\ mapper = "ready"
    /\ stats = <<>>
    /\ stats' = << get_database_stats >>
    /\ UNCHANGED <<mapper, available_industries, mapping_df, mapping_dict, load_error, requestVars>>

\* main.py lines 67-187: the Process Symbols button with the text area holding input
ProcessSymbols(input) ==
    /\ mapper = "ready"
    /\ outcome = "idle"
    /\ symbols_input' = input
    /\ renormalized' = <<>>
    /\ IF strip(input) = <<>>
       THEN \* lines 68-70
            /\ outcome' = "empty_input"
            /\ shown' = {"Please enter some symbols to process."}
            /\ UNCHANGED <<clean_symbol_list, mapped_symbols, invalid_symbols,
                           categorized_output, flat_output>>
       ELSE LET r == map_symbols(input, mapping_dict)
            IN /\ clean_symbol_list' = r.clean_symbol_list
               /\ mapped_symbols' = r.mapped_symbols
               /\ invalid_symbols' = r.invalid_symbols
               /\ IF r.raised
                  THEN \* lines 184-185
                       /\ outcome' = "batch_error"
                       /\ shown' = {"Maximum 900 symbols allowed per batch"}
                       /\ UNCHANGED <<categorized_output, flat_output>>
                  ELSE IF r.mapped_symbols = <<>>
                  THEN \* lines 107-108, 178-182
                       /\ outcome' = "ok"
                       /\ shown' = {"No valid symbols found."}
                                     \cup (IF r.invalid_symbols # <<>>
                                           THEN {"Invalid or unmapped symbols"} ELSE {})
                       /\ UNCHANGED <<categorized_output, flat_output>>
                  ELSE \* lines 81-106, 112-133
                       /\ categorized_output' = << format_tv_output(r.mapped_symbols) >>
                       /\ IF HasMethod("format_flat_output")
                          THEN \* lines 133-182
                               /\ flat_output' = << format_flat_output(r.mapped_symbols) >>
                               /\ outcome' = "ok"
                               /\ shown' = {"Results", "TradingView Format"}
                                             \cup (IF r.invalid_symbols # <<>>
                                                   THEN {"Invalid or unmapped symbols"} ELSE {})
                          ELSE \* line 133 raises AttributeError; lines 186-187
                               /\ flat_output' = <<>>
                               /\ outcome' = "generic_error"
                               /\ shown' = {"Results", "An error occurred"}
    /\ UNCHANGED mapperVars

\* the page is run again: the request's values are gone
Rerun ==
    /\ outcome # "idle"
    /\ symbols_input' = <<>>
    /\ outcome' = "idle"
    /\ clean_symbol_list' = <<>>
    /\ renormalized' = <<>>
    /\ mapped_symbols' = <<>>
    /\ invalid_symbols' = <<>>
    /\ categorized_output' = <<>>
    /\ flat_output' = <<>>
    /\ shown' = {}
    /\ UNCHANGED mapperVars

\* clean_symbols applied to the text at hand
CleanSymbols ==
    /\ outcome = "idle"
    /\ clean_symbol_list' = clean_symbols(symbols_input)
    /\ outcome' = "cleaned"
    /\ UNCHANGED <<mapperVars, symbols_input, renormalized, mapped_symbols, invalid_symbols,
                   categorized_output, flat_output, shown>>

\* clean_symbols applied to its own result, joined with commas
Renormalize ==
    /\ outcome = "cleaned"
    /\ renormalized' = << clean_symbols(join(<<",">>, clean_symbol_list)) >>
    /\ outcome' = "renormalized"
    /\ UNCHANGED <<mapperVars, symbols_input, clean_symbol_list, mapped_symbols,
                   invalid_symbols, categorized_output, flat_output, shown>>

\* format_tv_output applied to the dict at hand
FormatTv ==
    /\ outcome = "idle"
    /\ categorized_output' = << format_tv_output(mapped_symbols) >>
    /\ outcome' = "formatted"
    /\ UNCHANGED <<mapperVars, symbols_input, clean_symbol_list, renormalized, mapped_symbols,
                   invalid_symbols, flat_output, shown>>

-----------------------------------------------------------------------------
(* Specifications.                                                         *)

\* The page of main.py: the mapper is constructed once, then requests are processed.
Init == NoMapper /\ IdleRequest

Next ==
    \/ \E c \in CatalogFiles, s \in StockFiles(PageSymbols) : Construct(c, s)
    \/ \E input \in PageInputs : ProcessSymbols(input)
    \/ Rerun

Spec == Init /\ [][Next]_vars

\* The mapper object under any sequence of loads.
NextLoad ==
    \/ \E c \in CatalogFiles, s \in StockFiles(LoadSymbols) : Construct(c, s)
    \/ \E c \in CatalogFiles, s \in StockFiles(LoadSymbols) : LoadDatabase(c, s)
    \/ GetDatabaseStats

SpecLoad == Init /\ [][NextLoad]_vars

\* Requests around the batch limit, on a mapper constructed from one of two tables.
BatchStock == {File(<<>>), File(<< << Tick(0), IT >> >>)}

InitBatch ==
    /\ \E s \in BatchStock :
          LET self == load_database(NewObject, File(<<IT, Tech>>), s)
          IN /\ mapper = "ready"
             /\ available_industries = self.available_industries
             /\ mapping_df = self.mapping_df
             /\ mapping_dict = self.mapping_dict
             /\ load_error = self.error
    /\ stats = <<>>
    /\ IdleRequest

NextBatch ==
    \/ \E input \in BatchInputs \cup PageInputs : ProcessSymbols(input)
    \/ Rerun

SpecBatch == InitBatch /\ [][NextBatch]_vars

\* clean_symbols as a function of the raw text.
InitClean ==
    /\ NoMapper
    /\ symbols_input \in Texts(DecoratedTokens, MaxCleanTokens)
    /\ outcome = "idle"
    /\ clean_symbol_list = <<>>
    /\ renormalized = <<>>
    /\ mapped_symbols = <<>>
    /\ invalid_symbols = <<>>
    /\ categorized_output = <<>>
    /\ flat_output = <<>>
    /\ shown = {}

NextClean == CleanSymbols \/ Renormalize

SpecClean == InitClean /\ [][NextClean]_vars

\* format_tv_output as a function of the mapped dict.
InitFormat ==
    /\ NoMapper
    /\ mapped_symbols \in FormatInputs
    /\ symbols_input = <<>>
    /\ outcome = "idle"
    /\ clean_symbol_list = <<>>
    /\ renormalized = <<>>
    /\ invalid_symbols = <<>>
    /\ categorized_output = <<>>
    /\ flat_output = <<>>
    /\ shown = {}

NextFormat == FormatTv

SpecFormat == InitFormat /\ [][NextFormat]_vars

-----------------------------------------------------------------------------
(* Properties.                                                             *)

\* the tokens of a raw text: comma, semicolon and newline separate alike
InputTokens(text) ==
    LET SepAt(i) == text[i] \in {",", ";", "\n"}
    IN split([i \in 1..Len(text) |-> IF SepAt(i) THEN "," ELSE text[i]], ",")

\* the tokens that are not empty once trimmed, in input order
NonBlankTokens(text) ==
    LET NotBlank(t) == strip(t) # <<>>
    IN SelectSeq(InputTokens(text), NotBlank)

NoRepeats(list) == \A i, j \in 1..Len(list) : list[i] = list[j] => i = j

MapReturned == outcome \in {"ok", "generic_error"}

\* C1: when map_symbols returns, every ticker of clean_symbols(input) is a key of
\* the mapped dict iff it is a key of mapping_dict (with that table's industry as
\* value) and is in the unmapped list otherwise; no ticker is in both results, none
\* in neither, and the results hold no ticker outside the normalized list.
C1_MappingIsTotal ==
    MapReturned =>
        LET normalized == Range(clean_symbols(symbols_input))
            mapped == Keys(mapped_symbols)
            unmapped == Range(invalid_symbols)
        IN /\ \A t \in normalized :
                /\ t \in mapped <=> t \in DOMAIN mapping_dict
                /\ t \in unmapped <=> t \notin DOMAIN mapping_dict
           /\ mapped \cap unmapped = {}
           /\ mapped \cup unmapped = normalized
           /\ DistinctKeys(mapped_symbols)
           /\ \A i \in 1..Len(mapped_symbols) :
                mapped_symbols[i][2] = mapping_dict[mapped_symbols[i][1]]

\* C1 witness: a request whose input has tickers of both kinds was mapped
C1_Witness ==
    /\ MapReturned
    /\ mapped_symbols # <<>>
    /\ invalid_symbols # <<>>

\* the number of distinct tickers of a raw text once trimmed, upper-cased and
\* stripped of the prefix
DistinctTickers(text) ==
    LET tokens == NonBlankTokens(text)
    IN Cardinality({CleanToken(tokens[i]) : i \in 1..Len(tokens)})

C3_Idempotent ==
    outcome = "renormalized" => renormalized = << clean_symbol_list >>

\* a ticker in canonical form
Canonical(t) ==
    /\ t # <<>>
    /\ upper(t) = t
    /\ strip(t) = t
    /\ ~startswith(t, NSE)

\* C4: every ticker clean_symbols returns is non-empty, uppercase, without leading
\* or trailing whitespace, and does not start with "NSE:".
C4_Canonical ==
    outcome \in {"cleaned", "renormalized"} =>
        \A i \in 1..Len(clean_symbol_list) : Canonical(clean_symbol_list[i])

\* two tokens that differ only in letter case or in an "NSE:" prefix
SameTicker(t, u) ==
    LET a == upper(strip(t))
        b == upper(strip(u))
    IN a = b \/ a = NSE \o b \/ b = NSE \o a

\* C5: the list clean_symbols returns has no repeated element, holds exactly the
\* tickers of the non-empty input tokens, and orders them by first occurrence,
\* where two tokens that differ only in letter case or in an "NSE:" prefix count
\* as the same ticker.
C5_DedupFirstOccurrence ==
    outcome \in {"cleaned", "renormalized"} =>
        LET tokens == NonBlankTokens(symbols_input)
            tickers == [i \in 1..Len(tokens) |-> CleanToken(tokens[i])]
            First(x) == CHOOSE i \in 1..Len(tickers) :
                           /\ tickers[i] = x
                           /\ \A j \in 1..(i - 1) : tickers[j] # x
        IN /\ NoRepeats(clean_symbol_list)
           /\ Range(clean_symbol_list) = Range(tickers)
           /\ \A i, j \in 1..Len(clean_symbol_list) :
                i < j => First(clean_symbol_list[i]) < First(clean_symbol_list[j])
           /\ \A i, j \in 1..Len(tokens) :
                SameTicker(tokens[i], tokens[j]) => tickers[i] = tickers[j]

\* the value of a string of decimal digits
RECURSIVE ParseNat(_)
ParseNat(d) ==
    IF d = <<>> THEN 0
    ELSE 10 * ParseNat(SubSeq(d, 1, Len(d) - 1))
         + ((CHOOSE k \in 1..10 : DigitChars[k] = d[Len(d)]) - 1)

IsDigits(d) == d # <<>> /\ \A i \in 1..Len(d) : \E k \in 1..10 : DigitChars[k] = d[i]

RECURSIVE SumOver(_, _)
SumOver(S, f) ==
    IF S = {} THEN 0
    ELSE LET x == CHOOSE y \in S : TRUE IN f[x] + SumOver(S \ {x}, f)

\* C6: format_tv_output renders a dict as one line of comma-joined groups, one per
\* distinct industry in ascending order of industry name, each group being
\* "###INDUSTRY(count)," followed by the comma-joined "NSE:"-prefixed tickers of
\* that industry in ascending order, count being the number of tickers listed;
\* every ticker of the dict is in exactly one group and the counts sum to its size.
C6_GroupedFormat ==
    outcome = "formatted" =>
        LET out == categorized_output[1]
            toks == IF out = <<>> THEN <<>> ELSE split(out, ",")
            IsHeader(i) == startswith(toks[i], <<"#", "#", "#">>)
            headers == {i \in 1..Len(toks) : IsHeader(i)}
            Open(i) == CHOOSE k \in 1..Len(toks[i]) :
                          /\ toks[i][k] = "("
                          /\ \A m \in (k + 1)..Len(toks[i]) : toks[i][m] # "("
            Industry(i) == SubSeq(toks[i], 4, Open(i) - 1)
            CountText(i) == SubSeq(toks[i], Open(i) + 1, Len(toks[i]) - 1)
            Last(i) == IF \E h \in headers : h > i
                       THEN (CHOOSE h \in headers : h > i /\ \A g \in headers : g > i => h <= g) - 1
                       ELSE Len(toks)
            Ticker(j) == SubSeq(toks[j], 5, Len(toks[j]))
            counts == [i \in headers |-> ParseNat(CountText(i))]
        IN /\ \A k \in 1..Len(out) : out[k] # "\n"
           /\ (mapped_symbols = <<>>) <=> (out = <<>>)
           /\ toks # <<>> => 1 \in headers
           /\ \A i \in headers :
                /\ \E k \in 1..Len(toks[i]) : toks[i][k] = "("
                /\ toks[i][Len(toks[i])] = ")"
                /\ IsDigits(CountText(i))
                /\ CountText(i) = IntToStr(counts[i])
                /\ counts[i] = Last(i) - i
                /\ counts[i] >= 1
                /\ \A j \in (i + 1)..Last(i) :
                      /\ startswith(toks[j], NSE)
                      /\ \E m \in 1..Len(mapped_symbols) :
                            mapped_symbols[m] = << Ticker(j), Industry(i) >>
                      /\ j < Last(i) => StrLess(Ticker(j), Ticker(j + 1))
                /\ \A h \in headers : i < h => StrLess(Industry(i), Industry(h))
           /\ {Industry(i) : i \in headers} = {mapped_symbols[m][2] : m \in 1..Len(mapped_symbols)}
           /\ \A m \in 1..Len(mapped_symbols) :
                Cardinality({j \in (1..Len(toks)) \ headers :
                                Ticker(j) = mapped_symbols[m][1]}) = 1
           /\ SumOver(headers, counts) = Len(mapped_symbols)

\* C6 witness: a dict of two industries, one of them with two tickers given in
\* descending order, was formatted
C6_Witness ==
    /\ outcome = "formatted"
    /\ Len(mapped_symbols) = 3
    /\ mapped_symbols[1][2] = mapped_symbols[2][2]
    /\ mapped_symbols[3][2] # mapped_symbols[1][2]
    /\ StrLess(mapped_symbols[2][1], mapped_symbols[1][1])
    /\ StrLess(mapped_symbols[1][2], mapped_symbols[3][2])

\* C7: after any sequence of load_database calls, successful or failed,
\* available_industries, mapping_df and mapping_dict all derive from the same
\* table sources: they are what one successful load of one pair of files leaves.
C7_LoadAtomic ==
    mapper = "ready" =>
        \E c \in CatalogFiles, s \in StockFiles(LoadSymbols) :
            LET self == load_database(NewObject, c, s)
            IN /\ self.error = NoError
               /\ self.available_industries = available_industries
               /\ self.mapping_df = mapping_df
               /\ self.mapping_dict = mapping_dict

\* C8: a load of a mapping that references an industry absent from the catalog
\* fails with an error naming the offending industries; consequently, in every
\* state reached after a successful load, every industry value of mapping_dict is
\* a member of available_industries.
C8_CatalogCoversMapping ==
    /\ load_error.named # {} =>
          /\ load_error.texts[Len(load_error.texts)] = "Invalid industries in mapping: "
          /\ mapper = "ready" =>
                load_error.named = InvalidIndustries(mapping_df, available_industries)
    /\ mapper = "ready" =>
          \A k \in DOMAIN mapping_dict : mapping_dict[k] \in Range(available_industries)

\* C9: a request whose input has both tickers found in the table and tickers not
\* found succeeds as a whole: the grouped and the flat output are both produced,
\* the unmapped tickers are reported, and the request does not end in the generic
\* error outcome.
C9_PartialMismatchSucceeds ==
    (MapReturned /\ mapped_symbols # <<>> /\ invalid_symbols # <<>>) =>
        /\ categorized_output # <<>>
        /\ flat_output # <<>>
        /\ "Invalid or unmapped symbols" \in shown
        /\ "An error occurred" \notin shown
        /\ outcome = "ok"

\* C10: after a successful load, total_symbols of get_database_stats equals the
\* number of keys of mapping_dict, also when the table has rows whose symbols are
\* duplicates or differ only in letter case; and mapped_industries is at most
\* total_industries.
C10_StatsCountKeys ==
    (stats # <<>> /\ load_error = NoError) =>
        /\ stats[1].total_symbols = Cardinality(DOMAIN mapping_dict)
        /\ stats[1].mapped_industries <= stats[1].total_industries

====
